---- MODULE Spec2Model ----
(***************************************************************************)
(* CallbackCamera (src/src/threaded.rs): a camera facade whose device,     *)
(* last-frame cache and callback slot are three independently locked       *)
(* fields shared with a worker running camera_frame_thread_loop, plus an   *)
(* atomic termination flag.                                                *)
(*                                                                         *)
(* Execution contexts: "W" is the worker loop, "U" is the thread that owns *)
(* the facade (the methods that change anything take &mut self).           *)
(* A lock is modelled by the set of contexts that hold it; a guard that is *)
(* a temporary lives to the end of the statement that created it, and the  *)
(* guard created in the scrutinee of an `if let` lives to the end of the   *)
(* whole `if let`.                                                         *)
(***************************************************************************)
EXTENDS Naturals, Sequences, FiniteSets, TLC

\* Bound: total number of successful captures (frames carry their number).
MaxFrames == 2

W == "W"
U == "U"

NoRes == "0x0"
Res640 == "640x480"
Res320 == "320x240"
Resolutions == {Res640, Res320}
FrameFormats == {"YUYV", "MJPEG"}
Callbacks == {"cb1", "cb2"}
None == "none"

\* The values of the worker's and the caller's locals, of arguments and of
\* results are records: the absence of a value ...
NoValue == [none |-> TRUE]
\* ... and the mark of a drop that runs in the unwinding of a panic.
Unwinding == [unwind |-> TRUE]

VARIABLES
    cam,          \* the Camera behind `camera`: [res, fmt, open]
    camHolders,   \* contexts holding the guard of `camera`
    camPoisoned,  \* `camera`'s mutex is poisoned
    cache,        \* the Buffer behind `last_frame_captured`: [res, fmt, data]
    cacheHolders, \* contexts holding the guard of `last_frame_captured`
    cbSlot,       \* the callback behind `frame_callback`
    cbHolders,    \* contexts holding the guard of `frame_callback`
    cbPoisoned,   \* `frame_callback`'s mutex is poisoned
    dieBool,      \* die_bool
    wpc,          \* the worker's position in camera_frame_thread_loop
    wimg,         \* the worker's `img`
    wcb,          \* the callback the worker is executing
    upc,          \* the facade owner's position
    uop,          \* the facade method it is in
    uarg,         \* that method's argument
    utmp,         \* that method's local value (a format tag, a frame)
    ret,          \* the value a method returned, while upc = "returned"
    captured,     \* history: every frame a capture returned, and to whom
    cbLog,        \* history: the frame of every callback invocation
    wFailed,      \* history: the worker's previous capture failed
    wCycles,      \* history: callback invocations begun since the facade
                  \* method now at "returned" returned, or since the
                  \* facade was dropped (counted up to 2)
    wBegun        \* history: worker iterations begun since die_bool was
                  \* stored (counted up to 2)

vars == <<cam, camHolders, camPoisoned, cache, cacheHolders, cbSlot, cbHolders,
          cbPoisoned, dieBool, wpc, wimg, wcb, upc, uop, uarg, utmp, ret,
          captured, cbLog, wFailed, wCycles, wBegun>>

devVars == <<cam, camHolders, camPoisoned>>
cacheVars == <<cache, cacheHolders>>
cbVars == <<cbSlot, cbHolders, cbPoisoned>>
wVars == <<wpc, wimg, wcb>>
uVars == <<upc, uop, uarg, utmp, ret>>
histVars == <<captured, cbLog, wFailed, wCycles, wBegun>>

\* Buffer::new_with_vec(res, vec![], fmt): a frame with no bytes.
EmptyBuffer(res, fmt) == [res |-> res, fmt |-> fmt, data |-> 0]

\* CallbackCamera::new: the cache starts as the 0x0 GRAY empty buffer.
InitialBuffer == EmptyBuffer(NoRes, "GRAY")

\* Camera::frame on success: a frame in the active format; the n-th capture
\* carries payload n. frame() opens the stream when it is not open.
DeviceFrame(c, n) == [res |-> c.res, fmt |-> c.fmt, data |-> n]

\* `*guard = value` seen from outside the lock: the header is stored first.
HalfWritten(old, new) == [res |-> new.res, fmt |-> new.fmt, data |-> old.data]

Init ==
    /\ cam = [res |-> Res640, fmt |-> "YUYV", open |-> FALSE]
    /\ camHolders = {}
    /\ camPoisoned = FALSE
    /\ cache = InitialBuffer
    /\ cacheHolders = {}
    /\ cbSlot = "cb1"
    /\ cbHolders = {}
    /\ cbPoisoned = FALSE
    /\ dieBool = FALSE
    /\ wpc = "unstarted"
    /\ wimg = NoValue
    /\ wcb = None
    /\ upc = "idle"
    /\ uop = None
    /\ uarg = NoValue
    /\ utmp = NoValue
    /\ ret = [kind |-> "none", val |-> NoValue]
    /\ captured = <<>>
    /\ cbLog = <<>>
    /\ wFailed = FALSE
    /\ wCycles = 0
    /\ wBegun = 0

FacadeAlive == upc \notin {"die_store", "dropped"} /\ uop # "drop"

----------------------------------------------------------------------------
\* The worker: camera_frame_thread_loop.

\* A mutex can be locked when nobody holds it.
CanLock(holders) == holders = {}

\* Entry into camera_frame_thread_loop with the facade's four shared fields.
WStart ==
    /\ wpc = "unstarted"
    /\ FacadeAlive
    /\ wpc' = "loop"
    /\ UNCHANGED <<devVars, cacheVars, cbVars, dieBool, wimg, wcb, uVars, histVars>>

\* `camera.lock()` in the scrutinee of the `if let`.
WLockCam ==
    /\ wpc = "loop"
    /\ CanLock(camHolders)
    /\ camHolders' = camHolders \cup {W}
    /\ wpc' = "capture"
    /\ wBegun' = IF dieBool /\ wBegun < 2 THEN wBegun + 1 ELSE wBegun
    /\ UNCHANGED <<cam, camPoisoned, cacheVars, cbVars, dieBool, wimg, wcb, uVars, captured, cbLog, wFailed, wCycles>>

\* Faulty variant of WCaptureOk: the callback is called before the store.
WCaptureOkCallbackFirst ==
    /\ wpc = "capture"
    /\ Len(captured) < MaxFrames
    /\ LET img == DeviceFrame(cam, Len(captured) + 1) IN
        /\ wimg' = img
        /\ captured' = Append(captured, [frame |-> img, by |-> W])
    /\ cam' = [cam EXCEPT !.open = TRUE]
    /\ wpc' = "cb_lock"
    /\ UNCHANGED <<camHolders, camPoisoned, cacheVars, cbVars, dieBool, wcb, uVars, cbLog, wFailed, wCycles, wBegun>>

\* The capture returns Ok(img): the body of the `if let` is entered, the
\* device guard still alive.
WCaptureOk ==
    /\ wpc = "capture"
    /\ Len(captured) < MaxFrames
    /\ LET img == DeviceFrame(cam, Len(captured) + 1) IN
        /\ wimg' = img
        /\ captured' = Append(captured, [frame |-> img, by |-> W])
    /\ cam' = [cam EXCEPT !.open = TRUE]
    /\ wpc' = "store"
    /\ UNCHANGED <<camHolders, camPoisoned, cacheVars, cbVars, dieBool, wcb, uVars, cbLog, wFailed, wCycles, wBegun>>

\* Faulty variant of WCaptureErr: the flag is checked inside the `if let`
\* only, so a failed capture goes straight back to the top of the loop.
WCaptureErrNoCheck ==
    /\ wpc = "capture"
    /\ camHolders' = camHolders \ {W}
    /\ wpc' = "loop"
    /\ wFailed' = TRUE
    /\ UNCHANGED <<cam, camPoisoned, cacheVars, cbVars, dieBool, wimg, wcb, uVars, captured, cbLog, wCycles, wBegun>>

\* Faulty variant of WCaptureErr: a failed capture leaves the loop.
WCaptureErrBreak ==
    /\ wpc = "capture"
    /\ camHolders' = camHolders \ {W}
    /\ wpc' = "done"
    /\ wFailed' = TRUE
    /\ UNCHANGED <<cam, camPoisoned, cacheVars, cbVars, dieBool, wimg, wcb, uVars, captured, cbLog, wCycles, wBegun>>

\* The capture returns Err: the `if let` is skipped and its guard dropped.
WCaptureErr ==
    /\ wpc = "capture"
    /\ camHolders' = camHolders \ {W}
    /\ wpc' = "chk"
    /\ wFailed' = TRUE
    /\ UNCHANGED <<cam, camPoisoned, cacheVars, cbVars, dieBool, wimg, wcb, uVars, captured, cbLog, wCycles, wBegun>>

\* `*last_frame_captured.lock() = img.clone();` the lock and the first store.
WStoreBegin ==
    /\ wpc = "store"
    /\ CanLock(cacheHolders)
    /\ cacheHolders' = cacheHolders \cup {W}
    /\ cache' = HalfWritten(cache, wimg)
    /\ wpc' = "storing"
    /\ UNCHANGED <<devVars, cbVars, dieBool, wimg, wcb, uVars, histVars>>

\* ... the rest of the store; the cache guard dies with the statement.
WStoreEnd ==
    /\ wpc = "storing"
    /\ cache' = wimg
    /\ cacheHolders' = cacheHolders \ {W}
    /\ wpc' = "cb_lock"
    /\ UNCHANGED <<devVars, cbVars, dieBool, wimg, wcb, uVars, histVars>>

\* Faulty variant of WCallbackBegin: the callback is given the cached frame, not img.
WCallbackBeginCached ==
    /\ wpc = "cb_lock"
    /\ CanLock(cbHolders)
    /\ cbHolders' = cbHolders \cup {W}
    /\ wcb' = cbSlot
    /\ cbLog' = Append(cbLog, cache)
    /\ wCycles' = IF upc \in {"returned", "dropped"} /\ wCycles < 2 THEN wCycles + 1 ELSE wCycles
    /\ wpc' = "in_cb"
    /\ UNCHANGED <<devVars, cacheVars, cbSlot, cbPoisoned, dieBool, wimg, uVars, captured, wFailed, wBegun>>

\* `frame_callback.lock()` and `cb(img)`: the call begins under the guard.
WCallbackBegin ==
    /\ wpc = "cb_lock"
    /\ CanLock(cbHolders)
    /\ cbHolders' = cbHolders \cup {W}
    /\ wcb' = cbSlot
    /\ cbLog' = Append(cbLog, wimg)
    /\ wCycles' = IF upc \in {"returned", "dropped"} /\ wCycles < 2 THEN wCycles + 1 ELSE wCycles
    /\ wpc' = "in_cb"
    /\ UNCHANGED <<devVars, cacheVars, cbSlot, cbPoisoned, dieBool, wimg, uVars, captured, wFailed, wBegun>>

\* The callback returns: the callback guard, then the device guard, are dropped.
WCallbackReturn ==
    /\ wpc = "in_cb"
    /\ cbHolders' = cbHolders \ {W}
    /\ camHolders' = camHolders \ {W}
    /\ wcb' = None
    /\ wimg' = NoValue
    /\ wpc' = "chk"
    /\ wFailed' = FALSE
    /\ UNCHANGED <<cam, camPoisoned, cacheVars, cbSlot, cbPoisoned, dieBool, uVars, captured, cbLog, wCycles, wBegun>>

\* The callback panics: both guards are dropped while unwinding, which
\* poisons both mutexes, and the worker thread is gone.
WCallbackPanic ==
    /\ wpc = "in_cb"
    /\ cbHolders' = cbHolders \ {W}
    /\ camHolders' = camHolders \ {W}
    /\ cbPoisoned' = TRUE
    /\ camPoisoned' = TRUE
    /\ wcb' = None
    /\ wimg' = NoValue
    /\ wpc' = "panicked"
    /\ wFailed' = FALSE
    /\ UNCHANGED <<cam, cacheVars, cbSlot, dieBool, uVars, captured, cbLog, wCycles, wBegun>>

\* Faulty variant of WCheckDie: the worker clears the flag as it leaves.
WCheckDieReset ==
    /\ wpc = "chk"
    /\ wpc' = IF dieBool THEN "done" ELSE "loop"
    /\ dieBool' = FALSE
    /\ UNCHANGED <<devVars, cacheVars, cbVars, wimg, wcb, uVars, histVars>>

\* Faulty variant of WCheckDie: the flag is honoured after a failed capture only.
WCheckDieOnFailureOnly ==
    /\ wpc = "chk"
    /\ wpc' = IF dieBool /\ wFailed THEN "done" ELSE "loop"
    /\ UNCHANGED <<devVars, cacheVars, cbVars, dieBool, wimg, wcb, uVars, histVars>>

\* `if die_bool.load(SeqCst) { break; }`
WCheckDie ==
    /\ wpc = "chk"
    /\ wpc' = IF dieBool THEN "done" ELSE "loop"
    /\ UNCHANGED <<devVars, cacheVars, cbVars, dieBool, wimg, wcb, uVars, histVars>>

WorkerNext ==
    \/ WStart
    \/ WLockCam
    \/ WCaptureOk
    \/ WCaptureErr
    \/ WStoreBegin
    \/ WStoreEnd
    \/ WCallbackBegin
    \/ WCallbackReturn
    \/ WCallbackPanic
    \/ WCheckDie

----------------------------------------------------------------------------
\* The facade: the methods of CallbackCamera, run by the thread that owns it.

NoRet == [kind |-> "none", val |-> NoValue]
Ok(v) == [kind |-> "Ok", val |-> v]
Err(k) == [kind |-> k, val |-> NoValue]

\* The camera formats set_camera_format is called with.
CameraFormats == {[res |-> Res320, fmt |-> "MJPEG"]}

\* Methods that are one device call under the device guard.
DeviceOps == {"index", "resolution", "open_stream", "stop_stream",
              "poll_frame", "drop"}

\* Methods that begin with a call of self.camera_format().
FormatFirstOps == {"camera_format", "set_resolution", "set_camera_format"}

\* The arguments a method is called with.
ArgsOf(op) ==
    CASE op = "set_resolution" -> {[res |-> r] : r \in Resolutions}
      [] op = "set_camera_format" -> CameraFormats
      [] op = "set_callback" -> {[cb |-> c] : c \in Callbacks}
      [] OTHER -> {NoValue}

\* Where a method starts.
EntryOf(op) ==
    CASE op \in DeviceOps -> "lock_cam"
      [] op \in FormatFirstOps -> "fmt_lock"
      [] op = "set_callback" -> "cb_lock"
      [] op = "last_frame" -> "lf_lock"

\* What a method makes of a poisoned device mutex: the error its map_err
\* builds, or "unhandled" where the lock result is used with no map_err.
OnPoisoned(op) ==
    CASE op = "resolution" -> "GetPropertyError"
      [] op \in {"set_resolution", "open_stream"} -> "SetPropertyError"
      [] op \in {"stop_stream", "drop"} -> "StreamShutdownError"
      [] op = "poll_frame" -> "ReadFrameError"
      [] OTHER -> "unhandled"

\* A method is called.
UCall ==
    /\ upc = "idle"
    /\ \E op \in DeviceOps \cup FormatFirstOps \cup {"set_callback", "last_frame"} :
        \E arg \in ArgsOf(op) :
            /\ uop' = op
            /\ uarg' = arg
            /\ upc' = EntryOf(op)
    /\ UNCHANGED <<devVars, cacheVars, cbVars, dieBool, wVars, utmp, ret, histVars>>

\* The method has returned `ret` to its caller.
UReturn ==
    /\ upc = "returned"
    /\ upc' = "idle"
    /\ uop' = None
    /\ uarg' = NoValue
    /\ utmp' = NoValue
    /\ ret' = NoRet
    /\ wCycles' = 0
    /\ UNCHANGED <<devVars, cacheVars, cbVars, dieBool, wVars, captured, cbLog, wFailed, wBegun>>

\* A panic in the owning thread unwinds and drops the facade: Drop::drop runs.
Unwind ==
    /\ uop' = "drop"
    /\ uarg' = Unwinding
    /\ utmp' = NoValue
    /\ ret' = NoRet
    /\ upc' = "lock_cam"

\* Faulty variant of DropAfterStop: drop gives up when stop_stream fails.
DropAfterStopGiveUp(r) ==
    /\ upc' = IF r.kind = "Ok" THEN "die_store" ELSE "dropped"
    /\ utmp' = [kind |-> r.kind]
    /\ ret' = ret
    /\ UNCHANGED <<uop, uarg>>

\* Drop::drop, `let _stop_stream_err = self.stop_stream();`: whatever
\* stop_stream returned is dropped and the flag is stored next.
DropAfterStop(r) ==
    /\ upc' = "die_store"
    /\ utmp' = [kind |-> r.kind]
    /\ ret' = ret
    /\ UNCHANGED <<uop, uarg>>

\* A method's last expression or `?`: `r` goes to the caller.
Return(r) ==
    /\ upc' = "returned"
    /\ ret' = r
    /\ UNCHANGED <<uop, uarg, utmp>>

\* The end of stop_stream and of the other one-call methods.
Finish(r) == IF uop = "drop" THEN DropAfterStop(r) ELSE Return(r)

\* Faulty variant of ULockCam: the device is used without waiting for its lock.
ULockCamNoWait ==
    /\ upc = "lock_cam"
    /\ ~camPoisoned
    /\ camHolders' = camHolders \cup {U}
    /\ upc' = "in_cam"
    /\ UNCHANGED <<cam, camPoisoned, cacheVars, cbVars, dieBool, wVars, uop, uarg, utmp, ret, histVars>>

\* `self.camera.lock()` of a one-call method, the mutex not poisoned.
ULockCam ==
    /\ upc = "lock_cam"
    /\ CanLock(camHolders)
    /\ ~camPoisoned
    /\ camHolders' = camHolders \cup {U}
    /\ upc' = "in_cam"
    /\ UNCHANGED <<cam, camPoisoned, cacheVars, cbVars, dieBool, wVars, uop, uarg, utmp, ret, histVars>>

\* `self.camera.lock().map_err(..)?` on a poisoned mutex: the method returns
\* the error built by map_err (Drop ignores it and goes on).
ULockCamPoisoned ==
    /\ upc = "lock_cam"
    /\ CanLock(camHolders)
    /\ camPoisoned
    /\ OnPoisoned(uop) # "unhandled"
    /\ Finish(Err(OnPoisoned(uop)))
    /\ UNCHANGED <<devVars, cacheVars, cbVars, dieBool, wVars, histVars>>

\* `self.camera.lock().op()` on a poisoned mutex where no map_err handles the
\* lock result: the thread panics (the result is unwrapped) ...
ULockCamUnhandledPanic ==
    /\ upc \in {"lock_cam", "fmt_lock"}
    /\ CanLock(camHolders)
    /\ camPoisoned
    /\ OnPoisoned(IF upc = "fmt_lock" THEN "camera_format" ELSE uop) = "unhandled"
    /\ Unwind
    /\ UNCHANGED <<devVars, cacheVars, cbVars, dieBool, wVars, histVars>>

\* ... or the guard is used all the same (the poison is ignored).
ULockCamUnhandledProceed ==
    /\ upc \in {"lock_cam", "fmt_lock"}
    /\ CanLock(camHolders)
    /\ camPoisoned
    /\ OnPoisoned(IF upc = "fmt_lock" THEN "camera_format" ELSE uop) = "unhandled"
    /\ camHolders' = camHolders \cup {U}
    /\ upc' = IF upc = "fmt_lock" THEN "fmt_in" ELSE "in_cam"
    /\ UNCHANGED <<cam, camPoisoned, cacheVars, cbVars, dieBool, wVars, uop, uarg, utmp, ret, histVars>>

\* index(), resolution(): read the device, drop the guard.
UGetter ==
    /\ upc = "in_cam"
    /\ uop \in {"index", "resolution"}
    /\ camHolders' = camHolders \ {U}
    /\ Finish(Ok(IF uop = "index" THEN [index |-> 0] ELSE [res |-> cam.res]))
    /\ UNCHANGED <<cam, camPoisoned, cacheVars, cbVars, dieBool, wVars, histVars>>

\* open_stream(): Camera::open_stream under the guard, and nothing else.
UOpenStream ==
    /\ upc = "in_cam"
    /\ uop = "open_stream"
    /\ camHolders' = camHolders \ {U}
    /\ \/ /\ cam' = [cam EXCEPT !.open = TRUE]
          /\ Finish(Ok(NoValue))
       \/ /\ cam' = cam
          /\ Finish(Err("DeviceError"))
    /\ UNCHANGED <<camPoisoned, cacheVars, cbVars, dieBool, wVars, histVars>>

\* stop_stream(), called directly or by Drop::drop: Camera::stop_stream under
\* the guard, and nothing else.
UStopStream ==
    /\ upc = "in_cam"
    /\ uop \in {"stop_stream", "drop"}
    /\ camHolders' = camHolders \ {U}
    /\ \/ /\ cam' = [cam EXCEPT !.open = FALSE]
          /\ Finish(Ok(NoValue))
       \/ /\ cam' = cam
          /\ Finish(Err("DeviceError"))
    /\ UNCHANGED <<camPoisoned, cacheVars, cbVars, dieBool, wVars, histVars>>

\* Drop::drop after `let _stop_stream_err = self.stop_stream();`
UDieStore ==
    /\ upc = "die_store"
    /\ dieBool' = TRUE
    /\ upc' = "dropped"
    /\ UNCHANGED <<devVars, cacheVars, cbVars, wVars, uop, uarg, utmp, ret, histVars>>

\* Faulty variant of UPollCaptureOk: the device guard is kept in a variable
\* and so is still held when the cache is locked.
UPollCaptureOkKeepGuard ==
    /\ upc = "in_cam"
    /\ uop = "poll_frame"
    /\ Len(captured) < MaxFrames
    /\ LET frame == DeviceFrame(cam, Len(captured) + 1) IN
        /\ utmp' = frame
        /\ captured' = Append(captured, [frame |-> frame, by |-> U])
    /\ cam' = [cam EXCEPT !.open = TRUE]
    /\ upc' = "pf_store"
    /\ UNCHANGED <<camHolders, camPoisoned, cacheVars, cbVars, dieBool, wVars, uop, uarg, ret, cbLog, wFailed, wCycles, wBegun>>

\* poll_frame(): `.frame()?` under the guard returns Ok(frame); the guard dies
\* with the `let` statement.
UPollCaptureOk ==
    /\ upc = "in_cam"
    /\ uop = "poll_frame"
    /\ Len(captured) < MaxFrames
    /\ LET frame == DeviceFrame(cam, Len(captured) + 1) IN
        /\ utmp' = frame
        /\ captured' = Append(captured, [frame |-> frame, by |-> U])
    /\ cam' = [cam EXCEPT !.open = TRUE]
    /\ camHolders' = camHolders \ {U}
    /\ upc' = "pf_store"
    /\ UNCHANGED <<camPoisoned, cacheVars, cbVars, dieBool, wVars, uop, uarg, ret, cbLog, wFailed, wCycles, wBegun>>

\* Faulty variant of UPollCaptureErr: a failed poll empties the cache.
UPollCaptureErrClears ==
    /\ upc = "in_cam"
    /\ uop = "poll_frame"
    /\ camHolders' = camHolders \ {U}
    /\ cache' = InitialBuffer
    /\ Finish(Err("DeviceError"))
    /\ UNCHANGED <<cam, camPoisoned, cacheHolders, cbVars, dieBool, wVars, histVars>>

\* poll_frame(): `.frame()?` returns Err, which `?` returns to the caller.
UPollCaptureErr ==
    /\ upc = "in_cam"
    /\ uop = "poll_frame"
    /\ camHolders' = camHolders \ {U}
    /\ Finish(Err("DeviceError"))
    /\ UNCHANGED <<cam, camPoisoned, cacheVars, cbVars, dieBool, wVars, histVars>>

\* poll_frame(): `*self.last_frame_captured.lock() = frame.clone();`
UPollStoreBegin ==
    /\ upc = "pf_store"
    /\ CanLock(cacheHolders)
    /\ cacheHolders' = cacheHolders \cup {U}
    /\ cache' = HalfWritten(cache, utmp)
    /\ upc' = "pf_storing"
    /\ UNCHANGED <<devVars, cbVars, dieBool, wVars, uop, uarg, utmp, ret, histVars>>

\* Faulty variant of UPollStoreEnd: poll_frame also hands its frame to the callback.
UPollStoreEndCallback ==
    /\ upc = "pf_storing"
    /\ cache' = utmp
    /\ cacheHolders' = cacheHolders \ {U}
    /\ cbLog' = Append(cbLog, utmp)
    /\ upc' = "returned"
    /\ ret' = Ok(utmp)
    /\ UNCHANGED <<devVars, cbVars, dieBool, wVars, uop, uarg, utmp, captured, wFailed, wCycles, wBegun>>

\* ... the rest of the store, and `Ok(frame)`.
UPollStoreEnd ==
    /\ upc = "pf_storing"
    /\ cache' = utmp
    /\ cacheHolders' = cacheHolders \ {U}
    /\ upc' = "returned"
    /\ ret' = Ok(utmp)
    /\ UNCHANGED <<devVars, cbVars, dieBool, wVars, uop, uarg, utmp, histVars>>

\* `self.camera.lock()` inside camera_format(), the mutex not poisoned.
UFormatLock ==
    /\ upc = "fmt_lock"
    /\ CanLock(camHolders)
    /\ ~camPoisoned
    /\ camHolders' = camHolders \cup {U}
    /\ upc' = "fmt_in"
    /\ UNCHANGED <<cam, camPoisoned, cacheVars, cbVars, dieBool, wVars, uop, uarg, utmp, ret, histVars>>

\* camera_format(): Camera::camera_format under the guard. Called on its own
\* it returns the result; inside set_resolution and set_camera_format an Err
\* is returned by `?` and an Ok gives the format tag of the new empty buffer.
UFormatRead ==
    /\ upc = "fmt_in"
    /\ camHolders' = camHolders \ {U}
    /\ \/ /\ uop = "camera_format"
          /\ upc' = "returned"
          /\ ret' = Ok([res |-> cam.res, fmt |-> cam.fmt])
          /\ utmp' = utmp
       \/ /\ uop # "camera_format"
          /\ upc' = "sent_store"
          /\ utmp' = [fmt |-> cam.fmt]
          /\ ret' = ret
       \/ /\ upc' = "returned"
          /\ ret' = Err("DeviceError")
          /\ utmp' = utmp
    /\ UNCHANGED <<cam, camPoisoned, cacheVars, cbVars, dieBool, wVars, uop, uarg, histVars>>

\* The empty buffer set_resolution and set_camera_format store: the
\* resolution asked for (in set_camera_format `new_res` names no variable;
\* the resolution in scope is new_fmt's) and the format tag camera_format()
\* has just returned.
NewEmptyBuffer ==
    EmptyBuffer(uarg.res, utmp.fmt)

\* `*self.last_frame_captured.lock() = Buffer::new_with_vec(..)`: the lock
\* and the first store.
USentinelStoreBegin ==
    /\ upc = "sent_store"
    /\ CanLock(cacheHolders)
    /\ cacheHolders' = cacheHolders \cup {U}
    /\ cache' = HalfWritten(cache, NewEmptyBuffer)
    /\ upc' = "sent_storing"
    /\ UNCHANGED <<devVars, cbVars, dieBool, wVars, uop, uarg, utmp, ret, histVars>>

\* ... the rest of the store; the device is locked next.
USentinelStoreEnd ==
    /\ upc = "sent_storing"
    /\ cache' = NewEmptyBuffer
    /\ cacheHolders' = cacheHolders \ {U}
    /\ utmp' = NoValue
    /\ upc' = "lock_cam"
    /\ UNCHANGED <<devVars, cbVars, dieBool, wVars, uop, uarg, ret, histVars>>

\* Faulty variant of USetResolution: a rejected change puts the last captured
\* frame back into the cache.
USetResolutionRestore ==
    /\ upc = "in_cam"
    /\ uop = "set_resolution"
    /\ camHolders' = camHolders \ {U}
    /\ \/ /\ cam' = [cam EXCEPT !.res = uarg.res]
          /\ cache' = cache
          /\ Finish(Ok(NoValue))
       \/ /\ cam' = cam
          /\ cache' = IF captured = <<>> THEN InitialBuffer ELSE captured[Len(captured)].frame
          /\ Finish(Err("DeviceError"))
    /\ UNCHANGED <<camPoisoned, cacheHolders, cbVars, dieBool, wVars, histVars>>

\* set_resolution(new_res): Camera::set_resolution under the guard.
USetResolution ==
    /\ upc = "in_cam"
    /\ uop = "set_resolution"
    /\ camHolders' = camHolders \ {U}
    /\ \/ /\ cam' = [cam EXCEPT !.res = uarg.res]
          /\ Finish(Ok(NoValue))
       \/ /\ cam' = cam
          /\ Finish(Err("DeviceError"))
    /\ UNCHANGED <<camPoisoned, cacheVars, cbVars, dieBool, wVars, histVars>>

\* set_camera_format(new_fmt): Camera::set_camera_format under the guard.
USetCameraFormat ==
    /\ upc = "in_cam"
    /\ uop = "set_camera_format"
    /\ camHolders' = camHolders \ {U}
    /\ \/ /\ cam' = [cam EXCEPT !.res = uarg.res, !.fmt = uarg.fmt]
          /\ Finish(Ok(NoValue))
       \/ /\ cam' = cam
          /\ Finish(Err("DeviceError"))
    /\ UNCHANGED <<camPoisoned, cacheVars, cbVars, dieBool, wVars, histVars>>

\* Faulty variant of USetCallbackLock: the slot is taken without waiting for its lock.
USetCallbackNoWait ==
    /\ upc = "cb_lock"
    /\ IF cbPoisoned
       THEN /\ upc' = "returned"
            /\ ret' = Err("GetPropertyError")
            /\ cbHolders' = cbHolders
       ELSE /\ upc' = "cb_in"
            /\ ret' = ret
            /\ cbHolders' = cbHolders \cup {U}
    /\ UNCHANGED <<devVars, cacheVars, cbSlot, cbPoisoned, dieBool, wVars, uop, uarg, utmp, histVars>>

\* set_callback(cb): `self.frame_callback.lock().map_err(..)?`
USetCallbackLock ==
    /\ upc = "cb_lock"
    /\ CanLock(cbHolders)
    /\ IF cbPoisoned
       THEN /\ upc' = "returned"
            /\ ret' = Err("GetPropertyError")
            /\ cbHolders' = cbHolders
       ELSE /\ upc' = "cb_in"
            /\ ret' = ret
            /\ cbHolders' = cbHolders \cup {U}
    /\ UNCHANGED <<devVars, cacheVars, cbSlot, cbPoisoned, dieBool, wVars, uop, uarg, utmp, histVars>>

\* set_callback(cb): `*guard = Box::new(callback); Ok(())`
USetCallbackStore ==
    /\ upc = "cb_in"
    /\ cbSlot' = uarg.cb
    /\ cbHolders' = cbHolders \ {U}
    /\ upc' = "returned"
    /\ ret' = Ok(NoValue)
    /\ UNCHANGED <<devVars, cacheVars, cbPoisoned, dieBool, wVars, uop, uarg, utmp, histVars>>

\* Faulty variant of ULastFrameLock: the cache is read without waiting for its lock.
ULastFrameNoWait ==
    /\ upc = "lf_lock"
    /\ cacheHolders' = cacheHolders \cup {U}
    /\ upc' = "lf_in"
    /\ UNCHANGED <<devVars, cache, cbVars, dieBool, wVars, uop, uarg, utmp, ret, histVars>>

\* last_frame(): `self.last_frame_captured.lock()`
ULastFrameLock ==
    /\ upc = "lf_lock"
    /\ CanLock(cacheHolders)
    /\ cacheHolders' = cacheHolders \cup {U}
    /\ upc' = "lf_in"
    /\ UNCHANGED <<devVars, cache, cbVars, dieBool, wVars, uop, uarg, utmp, ret, histVars>>

\* last_frame(): `.clone()` under the guard.
ULastFrameClone ==
    /\ upc = "lf_in"
    /\ cacheHolders' = cacheHolders \ {U}
    /\ upc' = "returned"
    /\ ret' = Ok(cache)
    /\ UNCHANGED <<devVars, cache, cbVars, dieBool, wVars, uop, uarg, utmp, histVars>>

FacadeNext ==
    \/ UCall
    \/ UReturn
    \/ ULockCam
    \/ ULockCamPoisoned
    \/ ULockCamUnhandledPanic
    \/ ULockCamUnhandledProceed
    \/ UGetter
    \/ UOpenStream
    \/ UStopStream
    \/ UDieStore
    \/ UPollCaptureOk
    \/ UPollCaptureErr
    \/ UPollStoreBegin
    \/ UPollStoreEnd
    \/ UFormatLock
    \/ UFormatRead
    \/ USentinelStoreBegin
    \/ USentinelStoreEnd
    \/ USetResolution
    \/ USetCameraFormat
    \/ USetCallbackLock
    \/ USetCallbackStore
    \/ ULastFrameLock
    \/ ULastFrameClone

Next == WorkerNext \/ FacadeNext

Spec == Init /\ [][Next]_vars

\* The worker is a thread of its own, which the scheduler keeps running for
\* as long as it has a step to take; nothing is assumed of the callers.
FairSpec == Spec /\ WF_wpc(WorkerNext)

----------------------------------------------------------------------------
\* Properties.

\* Positions at which a context is inside the scope of a device guard.
WInDeviceScope == wpc \in {"capture", "store", "storing", "cb_lock", "in_cb"}
UInDeviceScope == upc \in {"in_cam", "fmt_in"}

\* C1: the device lock is held by at most one execution context at a time,
\* and a context is at a device operation only while it is the holder, so no
\* two device operations overlap.
C1_DeviceLockExclusive ==
    /\ Cardinality(camHolders) <= 1
    /\ (W \in camHolders) = WInDeviceScope
    /\ (U \in camHolders) = UInDeviceScope

\* C1 witness: the worker is capturing under the lock while poll_frame waits.
C1_Witness ==
    /\ camHolders = {W}
    /\ wpc = "capture"
    /\ upc = "lock_cam"
    /\ uop = "poll_frame"

\* C2: replacing the callback and invoking it exclude each other: the slot
\* lock has one holder, and the callback being executed is the one in the
\* slot, so set_callback does not complete during an invocation and an
\* invocation begun after it uses the new callback.
C2_CallbackSwapExclusive ==
    /\ Cardinality(cbHolders) <= 1
    /\ (W \in cbHolders) = (wpc = "in_cb")
    /\ (U \in cbHolders) = (upc = "cb_in")
    /\ (wpc = "in_cb" => wcb = cbSlot)
    /\ (wpc # "in_cb" => wcb = None)

\* C2 witness: cb2, installed by an earlier set_callback, is being executed
\* while set_callback(cb1) waits for the slot.
C2_Witness ==
    /\ wpc = "in_cb"
    /\ wcb = "cb2"
    /\ upc = "cb_lock"
    /\ uop = "set_callback"
    /\ uarg.cb = "cb1"

\* A frame with no bytes, or a frame some capture returned.
WholeFrame(f) ==
    \/ f.data = 0
    \/ \E i \in 1..Len(captured) : captured[i].frame = f

\* C3: what last_frame() returns, and what the cache holds whenever nobody
\* is storing into it, is an empty frame or a frame a capture returned.
C3_LastFrameWhole ==
    /\ (cacheHolders = {} => WholeFrame(cache))
    /\ (upc = "returned" /\ uop = "last_frame" => WholeFrame(ret.val))

\* C3 witness: last_frame() has returned the second captured frame while the
\* worker is running.
C3_Witness ==
    /\ upc = "returned"
    /\ uop = "last_frame"
    /\ ret.val.data = 2
    /\ wpc = "in_cb"

\* C4 as claimed: once stop_stream() has returned Ok, the worker makes at
\* most one more capture-and-callback cycle.
C4_AsClaimed ==
    (upc = "returned" /\ uop = "stop_stream" /\ ret.kind = "Ok") => wCycles <= 1

\* The resolution a set_resolution or set_camera_format call asks for.
NewRes == uarg.res

\* C5 as claimed: when set_resolution or set_camera_format has returned Ok,
\* the cache does not hold a frame captured at another resolution.
C5_AsClaimed ==
    (upc = "returned" /\ uop \in {"set_resolution", "set_camera_format"} /\ ret.kind = "Ok")
        => ~(cache.data > 0 /\ cache.res # NewRes)

\* C6: the step of a worker iteration whose capture fails changes neither
\* the cache nor the callback log and leads to the check of the flag, from
\* which the worker goes back to the top of the loop unless the flag is set.
C6_FailedCaptureSkips ==
    [][/\ (wpc = "capture" /\ wpc' # "capture" /\ captured' = captured)
            => (cache' = cache /\ cbLog' = cbLog /\ wpc' = "chk")
       /\ (wpc = "chk" /\ wpc' # "chk" /\ ~dieBool) => wpc' = "loop"]_vars

\* C6 witness: in the iteration after a failed one the worker has stored its
\* frame and is executing the callback with it.
C6_Witness ==
    /\ wFailed
    /\ wpc = "in_cb"
    /\ cache = wimg
    /\ cbLog[Len(cbLog)] = wimg

\* The frames the worker's captures returned, in capture order.
WorkerFrames ==
    LET s == SelectSeq(captured, LAMBDA e : e.by = W)
    IN  [i \in 1..Len(s) |-> s[i].frame]

\* The callback log is the worker's frames, but for the one in flight.
CallbackPerCapture ==
    /\ Len(WorkerFrames) = Len(cbLog) + (IF wpc \in {"store", "storing", "cb_lock"} THEN 1 ELSE 0)
    /\ \A i \in 1..Len(cbLog) : cbLog[i] = WorkerFrames[i]

\* C7: the callback is invoked once per successful worker capture, with that
\* capture's frame, in capture order; and the worker's store leaves its most
\* recent capture in the cache.
C7_CallbackOncePerCapture ==
    [][/\ CallbackPerCapture'
       /\ (wpc = "storing" /\ wpc' = "cb_lock")
            => cache' = WorkerFrames[Len(WorkerFrames)]]_vars

\* C7 witness: two worker captures, two invocations of the callback installed
\* at construction, the second frame in the cache.
C7_Witness ==
    /\ Len(WorkerFrames) = 2
    /\ Len(cbLog) = 2
    /\ wpc = "chk"
    /\ cbSlot = "cb1"
    /\ cache = cbLog[2]

\* C8 as claimed: a worker exists once the facade is constructed and
\* open_stream has returned Ok.
C8_AsClaimed ==
    (upc = "returned" /\ uop = "open_stream" /\ ret.kind = "Ok") => wpc # "unstarted"

\* C9: when the facade has been dropped and stop_stream failed in the drop,
\* the flag is set all the same; and a worker that reads the flag set leaves
\* the loop.
C9_StopFailureStillSignals ==
    [][/\ (upc' = "dropped" /\ utmp'.kind # "Ok") => dieBool'
       /\ (wpc = "chk" /\ wpc' # "chk" /\ dieBool) => wpc' = "done"]_vars

\* C9 witness: stop_stream failed in the drop, the flag is set and the
\* worker, which had delivered a frame, has left its loop.
C9_Witness ==
    /\ upc = "dropped"
    /\ utmp.kind = "DeviceError"
    /\ dieBool
    /\ wpc = "done"
    /\ Len(cbLog) >= 1

\* C10 as claimed: with the device mutex poisoned no facade method panics,
\* and none goes on to use the device.
C10_AsClaimed ==
    camPoisoned =>
        /\ ~(uop = "drop" /\ uarg = Unwinding)
        /\ ~UInDeviceScope

\* C11: poll_frame makes one capture, by the calling thread and under the
\* device guard.  The step that ends the capture drops the guard and leaves
\* the cache alone; when the capture succeeded the frame is kept, stored
\* into the cache as the next thing poll_frame does and returned; when it
\* failed the error is returned and the cache is never written.
C11_PollFrameCapturesOnce ==
    [][/\ (upc = "in_cam" /\ uop = "poll_frame" /\ upc' # "in_cam") =>
            /\ U \in camHolders
            /\ U \notin camHolders'
            /\ cache' = cache
            /\ IF captured' # captured
                 THEN /\ captured' = Append(captured, [frame |-> utmp', by |-> U])
                      /\ upc' = "pf_store"
                 ELSE /\ upc' = "returned"
                      /\ ret'.kind = "DeviceError"
       /\ (upc \in {"pf_store", "pf_storing"}) =>
            /\ utmp' = utmp
            /\ captured' # captured => captured'[Len(captured')].by = W
       /\ (upc = "pf_storing" /\ upc' # "pf_storing") =>
            /\ cache' = utmp
            /\ ret' = Ok(utmp)
            /\ upc' = "returned"]_vars

\* C11 witness: poll_frame has returned the one frame captured so far, which
\* is in the cache, while the worker waits for the device.
C11_Witness ==
    /\ upc = "returned"
    /\ uop = "poll_frame"
    /\ ret.kind = "Ok"
    /\ captured = <<[frame |-> ret.val, by |-> U]>>
    /\ cache = ret.val
    /\ wpc = "loop"

\* The number of the three locks a context holds.
LocksHeld(t) ==
    Cardinality({h \in {"cam", "cache", "cb"} :
        \/ h = "cam" /\ t \in camHolders
        \/ h = "cache" /\ t \in cacheHolders
        \/ h = "cb" /\ t \in cbHolders})

\* C12 as claimed: neither the worker nor the caller ever holds two of the
\* three locks, and the worker holds the cache lock or the slot lock only
\* after it has dropped the device guard.
C12_AsClaimed ==
    /\ LocksHeld(W) <= 1
    /\ LocksHeld(U) <= 1
    /\ (W \in cacheHolders \cup cbHolders => W \notin camHolders)

\* C13: the callback is invoked only by the worker at the lock of the slot,
\* with the frame it captured; the worker reaches that point only by
\* finishing the store of that frame into the cache; and the frame does not
\* change in between.
C13_StoreBeforeCallback ==
    [][/\ (cbLog' # cbLog) =>
            /\ wpc = "cb_lock"
            /\ cbLog' = Append(cbLog, wimg)
       /\ (wpc # "cb_lock" /\ wpc' = "cb_lock") =>
            /\ wpc = "storing"
            /\ cache' = wimg
            /\ W \notin cacheHolders'
       /\ (wpc \in {"store", "storing", "cb_lock"}) => wimg' = wimg]_vars

\* C13 witness: after a poll_frame took the first frame, the worker took
\* the second, stored it and is executing the callback with it.
C13_Witness ==
    /\ wpc = "in_cb"
    /\ cbLog = <<wimg>>
    /\ cache = wimg
    /\ Len(captured) = 2
    /\ captured[1].by = U
    /\ captured[2] = [frame |-> wimg, by |-> W]

\* C14: die_bool starts false, and no step takes it from true to false.
C14_SignalOneWay ==
    /\ ~dieBool
    /\ [][dieBool => dieBool']_vars

\* C14 witness: the flag was stored in a drop whose stop_stream succeeded,
\* and is still set after the worker has read it and left the loop.
C14_Witness ==
    /\ upc = "dropped"
    /\ utmp.kind = "Ok"
    /\ dieBool
    /\ wpc = "done"

\* C15: with the flag set the worker begins at most one more iteration, and
\* so invokes the callback at most once more.
C15_OneMoreIteration ==
    /\ wBegun <= 1
    /\ (upc = "dropped" => wCycles <= 1)

\* C15 witness: after the flag was set the worker began one iteration,
\* invoked the callback in it, and left the loop.
C15_Witness ==
    /\ upc = "dropped"
    /\ wBegun = 1
    /\ wCycles = 1
    /\ wpc = "done"

\* Positions of a worker that is inside its loop.
WRunning == wpc \in {"loop", "capture", "store", "storing", "cb_lock", "in_cb", "chk"}

\* C16: the flag is read at the end of every iteration, whether the capture
\* succeeded or failed, so once it is set a worker that keeps being scheduled
\* leaves its loop, also when every capture from then on fails.
C16_WorkerStops == dieBool ~> ~WRunning

\* C16 witness: the flag is set, every capture the worker made failed, the
\* one iteration begun after the flag included, and the worker has left the
\* loop.
C16_Witness ==
    /\ dieBool
    /\ wFailed
    /\ captured = <<>>
    /\ wBegun = 1
    /\ wpc = "done"

\* The methods that replace the cache by an empty buffer.
FormatSetters == {"set_resolution", "set_camera_format"}

\* C17 as claimed: when set_resolution or set_camera_format has returned Ok
\* and the cache still holds the empty buffer, that buffer has the resolution
\* and the format tag of the format the device now has.
C17_AsClaimed ==
    (upc = "returned" /\ uop \in FormatSetters /\ ret.kind = "Ok"
        /\ cacheHolders = {} /\ cache.data = 0)
        => (cache.res = cam.res /\ cache.fmt = cam.fmt)

\* The lock a context is about to take, None when it is not at a lock().
WWaitsFor ==
    CASE wpc = "loop" -> "cam"
      [] wpc = "store" -> "cache"
      [] wpc = "cb_lock" -> "cb"
      [] OTHER -> None
UWaitsFor ==
    CASE upc \in {"lock_cam", "fmt_lock"} -> "cam"
      [] upc \in {"pf_store", "sent_store", "lf_lock"} -> "cache"
      [] upc = "cb_lock" -> "cb"
      [] OTHER -> None

\* Context t holds lock l.
Holds(t, l) ==
    \/ l = "cam" /\ t \in camHolders
    \/ l = "cache" /\ t \in cacheHolders
    \/ l = "cb" /\ t \in cbHolders

\* C18: a method of the facade holds at most one lock and none when it asks
\* for one, so the worker and the caller are never each waiting for a lock
\* the other holds.
C18_NoDeadlock ==
    /\ LocksHeld(U) <= 1
    /\ (UWaitsFor # None => LocksHeld(U) = 0)
    /\ ~(Holds(U, WWaitsFor) /\ Holds(W, UWaitsFor))

\* C18 witness: the worker, holding the device guard, waits for the cache,
\* which last_frame holds; last_frame waits for nothing.
C18_Witness ==
    /\ wpc = "store"
    /\ Holds(W, "cam")
    /\ upc = "lf_in"
    /\ Holds(U, "cache")

\* C19: a setter locks the device only after its store of the empty buffer
\* is complete, does not write the cache again, and a device call that
\* fails leaves both the device's format and the cache as they are: the
\* old contents of the cache are not put back.
C19_SentinelBeforeDevice ==
    [][/\ (uop' \in FormatSetters /\ upc' = "lock_cam" /\ upc # "lock_cam") =>
            /\ upc = "sent_storing"
            /\ cache' = NewEmptyBuffer
            /\ cam' = cam
       /\ (uop \in FormatSetters /\ upc \in {"lock_cam", "in_cam"} /\ cache' # cache) =>
            wpc \in {"store", "storing"}
       /\ (uop \in FormatSetters /\ upc = "in_cam" /\ upc' = "returned" /\ ret'.kind # "Ok") =>
            /\ cam' = cam
            /\ cache' = cache]_vars

\* C19 witness: after a capture, set_resolution(320x240) was rejected by the
\* device, which is still at 640x480, and the cache holds the 320x240 empty
\* buffer.
C19_Witness ==
    /\ upc = "returned"
    /\ uop = "set_resolution"
    /\ ret.kind = "DeviceError"
    /\ Len(captured) >= 1
    /\ cam.res = Res640
    /\ cache = EmptyBuffer(Res320, cam.fmt)

\* The number of frames poll_frame captured.
PolledFrames == Len(SelectSeq(captured, LAMBDA e : e.by = U))

\* C20: poll_frame is never at the callback slot; no step of a method of the
\* facade invokes the callback; and the invocations, with the worker's
\* frame in flight if there is one, are as many as the captures that
\* poll_frame did not make.
C20_PollFrameNoCallback ==
    [][/\ (uop = "poll_frame" => upc \notin {"cb_lock", "cb_in"} /\ ~Holds(U, "cb"))
       /\ (upc' # upc => cbLog' = cbLog)
       /\ Len(cbLog') + (IF wpc' \in {"store", "storing", "cb_lock"} THEN 1 ELSE 0)
            = Len(captured') - PolledFrames']_vars

\* C20 witness: poll_frame has returned the second frame; the worker took
\* the first, and the callback was invoked once.
C20_Witness ==
    /\ upc = "returned"
    /\ uop = "poll_frame"
    /\ ret.kind = "Ok"
    /\ Len(captured) = 2
    /\ captured[1].by = W
    /\ captured[2] = [frame |-> ret.val, by |-> U]
    /\ Len(cbLog) = 1

====
